---------------------------- MODULE Spec2Model ----------------------------
(***************************************************************************)
(* A model of mongo-rest-route: applyPatchRequest (the PATCH reconciler),  *)
(* getValidate (validate / validateBulk) and the routes of MongoRestRouter.*)
(*                                                                         *)
(* JavaScript strings are sequences of one-character strings, so that      *)
(* split, slice, replace and parseFloat are computed character by          *)
(* character.  JavaScript objects live in a heap (a sequence of objects,   *)
(* addressed by position), so that two references to one object alias.     *)
(***************************************************************************)
EXTENDS Integers, Sequences, FiniteSets, TLC

VARIABLES
  heap,       \* applyPatchRequest: the JavaScript heap; origObject is heap[OrigAddr]
  pre,        \* applyPatchRequest: the heap as it was when the call was entered
  req,        \* applyPatchRequest: the request, [query, body]
  result,     \* applyPatchRequest: how the last call ended
  rejections, \* number of promises rejected with nobody awaiting them
  pc,         \* "idle" before a call, "done" after it
  options,    \* the options given to getValidate / MongoRestRouter
  args,       \* validate / validateBulk: the call, [fn, payload, allowManagedDates]
  ajvCalls,   \* the calls ajv.validate(schema, data) made: [schema, valid] each
  store,      \* router: the collection, a sequence of [doc, removed] in insertion order
  pending,    \* router: PATCH requests between their findOne and their updateOne
  response,   \* router: the response to the last request handled
  now,        \* router: the clock new Date() reads; also the number of requests so far
  env,        \* withDb: process.env.MONGO_URL
  dbArg,      \* withDb: the db argument of withDb(db)
  clients,    \* withDb: the urls clients[] holds a MongoClient for
  mw,         \* withDb: the last call of the middleware, its inputs and what it did
  calls       \* withDb: the number of calls of the middleware so far

appVars == <<heap, pre, req, result, rejections, pc, args, ajvCalls>>
routerVars == <<store, pending, response, now>>
dbVars == <<env, dbArg, clients, mw, calls>>
vars == <<heap, pre, req, result, rejections, pc, options, args, ajvCalls,
          store, pending, response, now, env, dbArg, clients, mw, calls>>

-----------------------------------------------------------------------------
(* Bounds of the model *)

\* longest raw query value drawn over ValueChars
MaxLen == 4
\* most keys in a query drawn
MaxKeys == 2
\* most operations in a JSON Patch drawn
MaxOps == 2
\* most elements of an array payload drawn for validateBulk
MaxItems == 2
\* most requests the router handles in a run
MaxRequests == 3
\* most PATCH requests in flight at a time
MaxPending == 1
\* most calls of the withDb middleware in a run
MaxCalls == 3

-----------------------------------------------------------------------------
(* Strings *)

Str_id == <<"_", "i", "d">>
Str_undefined == <<"u", "n", "d", "e", "f", "i", "n", "e", "d">>
Str_null == <<"n", "u", "l", "l">>
Str_true == <<"t", "r", "u", "e">>
Str_false == <<"f", "a", "l", "s", "e">>
Str_NaN == <<"N", "a", "N">>
Str_0 == <<"0">>

Digits == {"0", "1", "2", "3", "4", "5", "6", "7", "8", "9"}

DigitVal(c) ==
  CASE c = "0" -> 0 [] c = "1" -> 1 [] c = "2" -> 2 [] c = "3" -> 3
    [] c = "4" -> 4 [] c = "5" -> 5 [] c = "6" -> 6 [] c = "7" -> 7
    [] c = "8" -> 8 [] c = "9" -> 9

DigitChar(n) ==
  CASE n = 0 -> "0" [] n = 1 -> "1" [] n = 2 -> "2" [] n = 3 -> "3"
    [] n = 4 -> "4" [] n = 5 -> "5" [] n = 6 -> "6" [] n = 7 -> "7"
    [] n = 8 -> "8" [] n = 9 -> "9"

\* String(n) for a non-negative integer
RECURSIVE NumToStr(_)
NumToStr(n) ==
  IF n < 10 THEN <<DigitChar(n)>>
  ELSE NumToStr(n \div 10) \o <<DigitChar(n % 10)>>

\* the longest prefix of s made of decimal digits
RECURSIVE DigitPrefix(_)
DigitPrefix(s) ==
  IF s = <<>> \/ Head(s) \notin Digits THEN <<>>
  ELSE <<Head(s)>> \o DigitPrefix(Tail(s))

RECURSIVE DecimalValue(_, _)
DecimalValue(s, acc) ==
  IF s = <<>> THEN acc
  ELSE DecimalValue(Tail(s), 10 * acc + DigitVal(Head(s)))

NaN == -1

\* parseFloat / parseInt on strings without sign, point, exponent, blank or
\* radix prefix: the value of the leading digits, NaN when there are none
ParseNumber(s) ==
  IF DigitPrefix(s) = <<>> THEN NaN ELSE DecimalValue(DigitPrefix(s), 0)

\* String.prototype.slice(start, end) with start >= 0
Slice(s, start, end) ==
  LET n == Len(s)
      e == IF end < 0 THEN (IF n + end < 0 THEN 0 ELSE n + end)
           ELSE (IF end > n THEN n ELSE end)
      b == IF start > n THEN n ELSE start
  IN IF e <= b THEN <<>> ELSE SubSeq(s, b + 1, e)

\* str.split('/')
RECURSIVE Split(_)
Split(s) ==
  IF \A i \in 1..Len(s) : s[i] # "/" THEN <<s>>
  ELSE LET i == CHOOSE k \in 1..Len(s) :
                  s[k] = "/" /\ \A j \in 1..(k - 1) : s[j] # "/"
       IN <<SubSeq(s, 1, i - 1)>> \o Split(SubSeq(s, i + 1, Len(s)))

\* x.replace(pat, rep) with a two-character pattern and a one-character
\* replacement: only the first occurrence is replaced
ReplaceFirst(s, p1, p2, rep) ==
  LET hits == {k \in 1..(Len(s) - 1) : s[k] = p1 /\ s[k + 1] = p2}
  IN IF hits = {} THEN s
     ELSE LET i == CHOOSE k \in hits : \A j \in hits : k <= j
          IN SubSeq(s, 1, i - 1) \o <<rep>> \o SubSeq(s, i + 2, Len(s))

\* keys.split('/').filter(x=>!!x).map(x=>x.replace('~0','/').replace('~1','~'))
PathSegments(key) ==
  LET parts == Split(key)
      kept == SelectSeq(parts, LAMBDA x : x # <<>>)
  IN [i \in 1..Len(kept) |->
        ReplaceFirst(ReplaceFirst(kept[i], "~", "0", "/"), "~", "1", "~")]

-----------------------------------------------------------------------------
(* Values and the heap *)

Undefined == [t |-> "undefined"]
Null == [t |-> "null"]
Bool(b) == [t |-> "boolean", b |-> b]
Num(n) == [t |-> "number", n |-> n]
Str(s) == [t |-> "string", s |-> s]
Ref(a) == [t |-> "ref", a |-> a]

\* typeof x is one of 'number', 'bigint', 'string', 'boolean'
IsPrimitive(x) == x.t \in {"number", "string", "boolean"}

PlainObject(props) == [kind |-> "object", props |-> props, data |-> <<>>]
ArrayObject(props) == [kind |-> "array", props |-> props, data |-> <<>>]
ObjectIdObject(hex) == [kind |-> "ObjectId", props |-> <<>>, data |-> hex]
DateObject(time) == [kind |-> "Date", props |-> <<>>, data |-> time]

NoProps == <<>>

\* o[name], for a value o that is neither null nor undefined
Member(h, o, name) ==
  IF o.t = "ref"
    THEN IF name \in DOMAIN h[o.a].props THEN h[o.a].props[name] ELSE Undefined
  ELSE IF o.t = "string" /\ ParseNumber(name) # NaN /\ NumToStr(ParseNumber(name)) = name
          /\ ParseNumber(name) < Len(o.s)
    THEN Str(<<o.s[ParseNumber(name) + 1]>>)
  ELSE Undefined

IsArray(h, o) == o.t = "ref" /\ h[o.a].kind = "array"

\* the heap after o[name] = x, o a reference
SetMember(h, o, name, x) ==
  [h EXCEPT ![o.a].props =
     [k \in (DOMAIN h[o.a].props) \cup {name} |->
        IF k = name THEN x ELSE h[o.a].props[k]]]

\* the heap after delete o[name]
DeleteMember(h, o, name) ==
  [h EXCEPT ![o.a].props =
     [k \in (DOMAIN h[o.a].props) \ {name} |-> h[o.a].props[k]]]

Returned(x) == [thrown |-> FALSE, val |-> x]
Thrown(e) == [thrown |-> TRUE, val |-> e]

-----------------------------------------------------------------------------
(* getPatchTarget *)

\* o[index] with index = parseInt(key): the property named String(index)
IndexName(key) ==
  IF ParseNumber(key) = NaN THEN Str_NaN ELSE NumToStr(ParseNumber(key))

RECURSIVE getPatchTargetKeys(_, _, _)
getPatchTargetKeys(h, o, keys) ==
  IF o = Undefined THEN Returned(Undefined)
  ELSE IF Len(keys) > 1 THEN
    IF o = Null THEN Thrown("TypeError")
    ELSE IF IsArray(h, o)
      THEN getPatchTargetKeys(h, Member(h, o, IndexName(keys[1])), Tail(keys))
    ELSE getPatchTargetKeys(h, Member(h, o, keys[1]), Tail(keys))
  ELSE IF IsPrimitive(o) THEN Returned(Undefined)
  ELSE Returned(o)

getPatchTarget(h, o, key) == getPatchTargetKeys(h, o, PathSegments(key))

-----------------------------------------------------------------------------
(* Errors *)

TypeError == [name |-> "TypeError", errors |-> <<>>]
SyntaxError == [name |-> "SyntaxError", errors |-> <<>>]
JsonPatchError == [name |-> "JsonPatchError", errors |-> <<>>]
ValidationError(errors) == [name |-> "ValidationError", errors |-> errors]

\* the ErrorObject built when the _id values differ
ReadOnlyIdError ==
  [keyword |-> "", instancePath |-> "/_id", schemaPath |-> "",
   message |-> "The _id field is read only."]

-----------------------------------------------------------------------------
(* applyPatchRequest: patch using query params *)

\* req.query[key]?.toString() of a key whose value is undefined
NoValue == Undefined

\* strings new Date(value) parses to a valid date, among the raw values drawn
Str_Jan1 == <<"J", "a", "n", " ", "1">>
DateStrings == {Str_Jan1}
DateParses(value) == value \in DateStrings

\* const l = literals.find(([x])=>value==x)
LiteralNames == {Str_undefined, Str_null, Str_true, Str_false}
LiteralValue(value) ==
  CASE value = Str_undefined -> Undefined
    [] value = Str_null -> Null
    [] value = Str_true -> Bool(TRUE)
    [] value = Str_false -> Bool(FALSE)

\* value[0] == '"' && value[0] == value[value.length-1]
IsQuoted(value) ==
  Len(value) > 0 /\ value[1] = "\"" /\ value[1] = value[Len(value)]

\* value.slice(1, value.length-2)
Unquote(value) == Slice(value, 1, Len(value) - 2)

\* n < Infinity && n > -Infinity, n = parseFloat(value)
IsFiniteNumber(value) == ParseNumber(value) # NaN

\* the body of the forEach callback, for one key of req.query; value is a
\* string value or NoValue.  Gives the heap after it and whether it threw.
ApplyQueryKey(h, newObject, key, value) ==
  LET target == getPatchTarget(h, newObject, key)
      kept == [heap |-> h, thrown |-> FALSE]
      threw == [heap |-> h, thrown |-> TRUE]
      set(x) == [heap |-> SetMember(h, target.val, key, x), thrown |-> FALSE]
  IN IF target.thrown THEN threw
     ELSE IF target.val = Undefined \/ value = NoValue THEN kept
     ELSE IF target.val = Null THEN threw  \* target[key] = ... on null
     ELSE IF value.s \in LiteralNames THEN set(LiteralValue(value.s))
     ELSE IF IsQuoted(value.s) THEN set(Str(Unquote(value.s)))
     ELSE IF IsFiniteNumber(value.s) THEN set(Num(ParseNumber(value.s)))
     ELSE IF DateParses(value.s)
       THEN \* target[key] = d, with no return: the as-is assignment follows
            LET d == Len(h) + 1
                h1 == SetMember(Append(h, DateObject(value.s)), target.val, key, Ref(d))
            IN [heap |-> SetMember(h1, target.val, key, value), thrown |-> FALSE]
     ELSE set(value)

\* Object.keys(req.query).filter(x=>!!x).forEach(...): query is the sequence
\* of <<key, value>> pairs in the order Object.keys gives them
RECURSIVE ApplyQuery(_, _, _)
ApplyQuery(h, newObject, query) ==
  IF query = <<>> THEN [heap |-> h, thrown |-> FALSE]
  ELSE IF Head(query)[1] = <<>> THEN ApplyQuery(h, newObject, Tail(query))
  ELSE LET r == ApplyQueryKey(h, newObject, Head(query)[1], Head(query)[2])
       IN IF r.thrown THEN r ELSE ApplyQuery(r.heap, newObject, Tail(query))

-----------------------------------------------------------------------------
(* applyPatchRequest: JSON Patch *)

Absent == [t |-> "absent"]
NotJson == [t |-> "not json"]

\* A JavaScript string standing for a JSON text is kept as what JSON.parse
\* makes of it: json is the parsed value, or NotJson when JSON.parse throws.
Text(empty, json) == [empty |-> empty, json |-> json]
EmptyText == Text(TRUE, NotJson)

\* a parsed JSON array of operation objects
JsonArray(ops) == [t |-> "array", ops |-> ops]
\* a parsed JSON value that is neither an array, a string nor null
JsonOther == [t |-> "other"]
JsonNull == [t |-> "null"]

\* an operation object {op, path, from, value}; a member that is not there is Absent
Operation(op, path, from, value) ==
  [t |-> "operation", op |-> op, path |-> path, from |-> from, value |-> value]
\* a string element of an array body
StringItem(text) == [t |-> "string", text |-> text]

\* req.body: a plain object (items: its own keys), an array (items: its
\* elements), a string (text) or undefined
ObjectBody(keys) ==
  [kind |-> "object", items |-> [i \in 1..Len(keys) |-> [t |-> "member", key |-> keys[i]]],
   text |-> EmptyText]
ArrayBody(items) == [kind |-> "array", items |-> items, text |-> EmptyText]
StringBody(text) == [kind |-> "string", items |-> <<>>, text |-> text]
UndefinedBody == [kind |-> "undefined", items |-> <<>>, text |-> EmptyText]

\* Object.keys(req.body).length, req.body not undefined
BodyKeyCount(body) ==
  IF body.kind = "string" THEN (IF body.text.empty THEN 0 ELSE 1)
  ELSE Len(body.items)

\* String(req.body), the argument JSON.parse converts to a string: an object
\* gives "[object Object]", an array its elements joined by ","
BodyToString(body) ==
  IF body.kind = "string" THEN body.text
  ELSE IF body.kind = "array" /\ Len(body.items) = 1 /\ body.items[1].t = "string"
    THEN body.items[1].text
  ELSE Text(FALSE, NotJson)

\* the pattern ^(/([^~/]|~[01])*)*$
PointerOk(s) ==
  /\ s = <<>> \/ s[1] = "/"
  /\ \A i \in 1..Len(s) :
       s[i] = "~" => (i < Len(s) /\ s[i + 1] \in {"0", "1"})

IsPointer(x) == x.t = "string" /\ PointerOk(x.s)

\* items.oneOf of the JSON Patch schema
OperationConforms(o) ==
  /\ o.t = "operation"
  /\ \/ o.op \in {"add", "replace", "test"} /\ IsPointer(o.path) /\ o.value # Absent
        /\ (o.from = Absent \/ IsPointer(o.from))
     \/ o.op \in {"remove"} /\ IsPointer(o.path)
        /\ (o.from = Absent \/ IsPointer(o.from))
     \/ o.op \in {"move", "copy"} /\ IsPointer(o.from) /\ IsPointer(o.path)

\* what the compiled schema decides about req.body
jsonPatchSchema(body) ==
  body.kind = "array" /\ \A i \in 1..Len(body.items) : OperationConforms(body.items[i])

\* validatePatchSchema(req.body): the schema is $async, so the call returns
\* a promise and never throws; the number of promises it leaves rejected
validatePatchSchema(body) == IF jsonPatchSchema(body) THEN 0 ELSE 1

\* _deepClone(x) of fast-json-patch, for the values a top-level member holds
\* here: undefined gives null, an ObjectId or a Date its JSON string
DeepClone(h, x) ==
  IF x = Undefined THEN Null
  ELSE IF x.t = "ref" /\ h[x.a].kind \in {"ObjectId", "Date"} THEN Str(h[x.a].data)
  ELSE x

\* the member name of a pointer "/name" (the pointers drawn address top-level
\* members and hold no "~")
PointerKey(path) == Tail(path.s)

\* applyOperation(document, operation) of fast-json-patch for an object and
\* a one-segment pointer, validateOperation unset: the document is mutated
ApplyOperation(h, doc, o) ==
  LET ok(h2) == [heap |-> h2, thrown |-> FALSE, error |-> TypeError]
      fail(e) == [heap |-> h, thrown |-> TRUE, error |-> e]
  IN CASE o.op = "add" ->
            ok(SetMember(h, doc, PointerKey(o.path),
                         IF o.value = Absent THEN Undefined ELSE o.value))
       [] o.op = "replace" ->
            ok(SetMember(h, doc, PointerKey(o.path),
                         IF o.value = Absent THEN Undefined ELSE o.value))
       [] o.op = "remove" -> ok(DeleteMember(h, doc, PointerKey(o.path)))
       [] o.op = "test" ->
            IF Member(h, doc, PointerKey(o.path))
                 = (IF o.value = Absent THEN Undefined ELSE o.value) THEN ok(h)
            ELSE fail(JsonPatchError)
       [] o.op = "move" ->
            LET moved == Member(h, doc, PointerKey(o.from))
            IN ok(SetMember(DeleteMember(h, doc, PointerKey(o.from)), doc,
                            PointerKey(o.path), moved))
       [] o.op = "copy" ->
            ok(SetMember(h, doc, PointerKey(o.path),
                         DeepClone(h, Member(h, doc, PointerKey(o.from)))))
       [] OTHER -> fail(TypeError)  \* objOps[operation.op] is undefined

\* the loop of applyPatch over the operations, mutateDocument left at its
\* default (true)
RECURSIVE ApplyOperations(_, _, _)
ApplyOperations(h, doc, ops) ==
  IF ops = <<>> THEN [heap |-> h, thrown |-> FALSE, error |-> TypeError]
  ELSE LET r == ApplyOperation(h, doc, Head(ops))
       IN IF r.thrown THEN r ELSE ApplyOperations(r.heap, doc, Tail(ops))

\* applyPatch(origObject, patch).newDocument is origObject itself
applyPatch(h, doc, patch) ==
  CASE patch.t = "array" -> ApplyOperations(h, doc, patch.ops)
    [] patch.t = "null" -> [heap |-> h, thrown |-> TRUE, error |-> TypeError]
    [] OTHER -> [heap |-> h, thrown |-> FALSE, error |-> TypeError]

-----------------------------------------------------------------------------
(* applyPatchRequest *)

OrigAddr == 1
origObject == Ref(OrigAddr)

\* x.toHexString is a function
HasToHexString(h, x) == x.t = "ref" /\ h[x.a].kind = "ObjectId"

Outcome(h, out, rej) == [heap |-> h, out |-> out, rejected |-> rej]

\* an _id check that compares with the _id of the initial
\* {_id: new ObjectId()} and so always finds a difference
CheckIdOfFresh(h, newObject, rej) ==
  Outcome(h, Thrown(ValidationError(<<ReadOnlyIdError>>)), rej)

\* if (origObject._id.toHexString() != newObject._id.toHexString()) throw ...
\* return newObject
CheckId(h, newObject, rej) ==
  LET a == Member(h, origObject, Str_id)
      b == Member(h, newObject, Str_id)
  IN IF ~HasToHexString(h, a) \/ ~HasToHexString(h, b)
       THEN Outcome(h, Thrown(TypeError), rej)
     ELSE IF h[a.a].data # h[b.a].data
       THEN Outcome(h, Thrown(ValidationError(<<ReadOnlyIdError>>)), rej)
     ELSE Outcome(h, Returned(newObject), rej)

applyPatchRequest(h, r) ==
  IF r.body.kind = "undefined" THEN Outcome(h, Thrown(TypeError), 0)
  ELSE IF BodyKeyCount(r.body) = 0 THEN
    \* newObject = {...origObject}
    LET newObject == Ref(Len(h) + 1)
        q == ApplyQuery(Append(h, PlainObject(h[OrigAddr].props)), newObject, r.query)
    IN IF q.thrown THEN Outcome(q.heap, Thrown(TypeError), 0)
       ELSE CheckId(q.heap, newObject, 0)
  ELSE
    LET text == BodyToString(r.body)
    IN IF text.json = NotJson THEN Outcome(h, Thrown(SyntaxError), 0)
       ELSE LET rej == validatePatchSchema(r.body)
                p == applyPatch(h, origObject, text.json)
            IN IF p.thrown THEN Outcome(p.heap, Thrown(p.error), rej)
               ELSE CheckId(p.heap, origObject, rej)

-----------------------------------------------------------------------------
(* getValidate: the schemas *)

Str_added == <<"a", "d", "d", "e", "d">>
Str_lastModified == <<"l", "a", "s", "t", "M", "o", "d", "i", "f", "i", "e", "d">>
Str_deleted == <<"d", "e", "l", "e", "t", "e", "d">>
Str_async == <<"$", "a", "s", "y", "n", "c">>
Str_n == <<"n">>

\* a date-time string, and a string that is none
Str_iso == <<"2", "0", "2", "4", "T", "Z">>
Str_x == <<"x">>
DateTimeStrings == {Str_iso}

\* a property schema {type: "string"}, with format and nullable when given
StringSchema(format, nullable) == [type |-> "string", format |-> format, nullable |-> nullable]
\* the schema `true`
TrueSchema == [type |-> "any", format |-> "", nullable |-> TRUE]

requiredIdSchema == StringSchema("", FALSE)
optionalDateSchema == StringSchema("date-time", TRUE)

\* the JSON Schema given to getValidate, after the README's member schema:
\* {type: 'object', properties: {_id: string, n: string}, required: ['_id', 'n'],
\*  additionalProperties: false}
Schema ==
  [properties |-> (Str_id :> StringSchema("", FALSE)) @@ (Str_n :> StringSchema("", FALSE)),
   required |-> {Str_id, Str_n},
   additionalProperties |-> FALSE]

\* {...f, [name]: x}
With(f, name, x) == [k \in (DOMAIN f) \cup {name} |-> IF k = name THEN x ELSE f[k]]

withId(schema) ==
  [schema EXCEPT
     !.properties = With(With(schema.properties, Str_id, requiredIdSchema), Str_async, TrueSchema),
     !.required = schema.required \ {Str_id}]

withManagedDates(schema, dateFields) ==
  [schema EXCEPT
     !.properties =
        With(With(With(schema.properties, dateFields.added, optionalDateSchema),
                  dateFields.lastModified, optionalDateSchema),
             dateFields.deleted, optionalDateSchema)]

\* { added:'added', lastModified:'lastModified', deleted:'deleted', ...dateFieldOverrides}
DefaultDateFields ==
  [added |-> Str_added, lastModified |-> Str_lastModified, deleted |-> Str_deleted]

idSchema == withId(Schema)
dateSchema(dateFields) == withManagedDates(withId(Schema), dateFields)

\* what a property schema says of a value
PropertyValid(ps, x) ==
  \/ ps.type = "any"
  \/ ps.nullable /\ x = Null
  \/ /\ ps.type = "string" /\ x.t = "string"
     /\ ps.format = "date-time" => x.s \in DateTimeStrings

\* the boolean ajv.validate(schema, data) returns for an object schema
AjvValid(schema, h, data) ==
  /\ data.t = "ref" /\ h[data.a].kind = "object"
  /\ \A k \in schema.required :
       k \in DOMAIN h[data.a].props /\ h[data.a].props[k] # Undefined
  /\ \A k \in DOMAIN h[data.a].props :
       IF k \in DOMAIN schema.properties
         THEN h[data.a].props[k] = Undefined
              \/ PropertyValid(schema.properties[k], h[data.a].props[k])
         ELSE ~(schema.additionalProperties = FALSE)

-----------------------------------------------------------------------------
(* getValidate: validate and validateBulk *)

\* delete p._id; delete p[dateFields.added]; ...lastModified; ...deleted
DeleteManaged(h, p, dateFields) ==
  DeleteMember(DeleteMember(DeleteMember(DeleteMember(h, p, Str_id), p, dateFields.added),
                            p, dateFields.lastModified), p, dateFields.deleted)

\* validate(payload, {allowManagedDates}): the heap after it, what it returns
\* and the call of ajv.validate it makes, whose result it drops
validate(h, payload, allowManagedDates, dateFields) ==
  LET h1 == IF allowManagedDates THEN DeleteManaged(h, payload, dateFields) ELSE h
  IN [heap |-> h1,
      out |-> Returned(payload),
      ajv |-> <<[schema |-> Schema, valid |-> AjvValid(Schema, h1, payload)]>>]

\* the elements of an array object, in index order
ArrayLength(h, arr) == Cardinality(DOMAIN h[arr.a].props)
ArrayItem(h, arr, i) == h[arr.a].props[NumToStr(i)]

\* payload.forEach(x=>!validate(x)), from index i on
RECURSIVE ValidateEach(_, _, _, _)
ValidateEach(h, payload, i, dateFields) ==
  IF i >= ArrayLength(h, payload) THEN [heap |-> h, ajv |-> <<>>]
  ELSE LET v == validate(h, ArrayItem(h, payload, i), FALSE, dateFields)
           rest == ValidateEach(v.heap, payload, i + 1, dateFields)
       IN [heap |-> rest.heap, ajv |-> v.ajv \o rest.ajv]

validateBulk(h, payload, dateFields) ==
  IF IsArray(h, payload)
    THEN LET r == ValidateEach(h, payload, 0, dateFields)
         IN [heap |-> r.heap, out |-> Returned(payload), ajv |-> r.ajv]
  ELSE LET v == validate(h, payload, FALSE, dateFields)
       IN \* return [payload as T]
          [heap |-> Append(v.heap, ArrayObject(Str_0 :> payload)),
           out |-> Returned(Ref(Len(v.heap) + 1)),
           ajv |-> v.ajv]

-----------------------------------------------------------------------------
(* The collection *)

\* Stored values: the primitives, and ObjectIds and Dates by value
OidValue(hex) == [t |-> "ObjectId", hex |-> hex]
DateValue(time) == [t |-> "Date", time |-> time]

\* new Date() at clock time t
DateAt(t) == NumToStr(t)

\* what the driver writes for a value of a document it is given: undefined
\* is written as null, an ObjectId or Date object by value
ToStored(h, x) ==
  IF x = Undefined THEN Null
  ELSE IF x.t # "ref" THEN x
  ELSE IF h[x.a].kind = "ObjectId" THEN OidValue(h[x.a].data)
  ELSE IF h[x.a].kind = "Date" THEN DateValue(h[x.a].data)
  ELSE [t |-> h[x.a].kind]

Serialize(h, o) == [k \in DOMAIN h[o.a].props |-> ToStored(h, h[o.a].props[k])]

RECURSIVE SetToSeq(_)
SetToSeq(S) ==
  IF S = {} THEN <<>>
  ELSE LET x == CHOOSE y \in S : TRUE IN <<x>> \o SetToSeq(S \ {x})

\* the object findOne gives for a stored document: a heap with the object
\* at OrigAddr and its ObjectId and Date members after it
Load(doc) ==
  LET names == SetToSeq({k \in DOMAIN doc : doc[k].t \in {"ObjectId", "Date"}})
      at(k) == CHOOSE i \in 1..Len(names) : names[i] = k
  IN <<PlainObject([k \in DOMAIN doc |->
                      IF doc[k].t \in {"ObjectId", "Date"} THEN Ref(at(k) + 1) ELSE doc[k]])>>
     \o [i \in 1..Len(names) |->
           IF doc[names[i]].t = "ObjectId" THEN ObjectIdObject(doc[names[i]].hex)
           ELSE DateObject(doc[names[i]].time)]

Entry(doc) == [doc |-> doc, removed |-> FALSE]

\* the documents a criteria {_id: id, [deleted]: {$exists: false}?} matches
Matches(st, id, deleted, live) ==
  {i \in 1..Len(st) :
     /\ ~st[i].removed
     /\ Str_id \in DOMAIN st[i].doc /\ st[i].doc[Str_id] = id
     /\ live => deleted \notin DOMAIN st[i].doc}

First(S) == CHOOSE i \in S : \A j \in S : i <= j

\* c.updateOne(criteria, {$set: fields}): the first match gets the fields
UpdateOneSet(st, id, deleted, live, fields) ==
  LET m == Matches(st, id, deleted, live)
  IN IF m = {} THEN [store |-> st, matchedCount |-> 0]
     ELSE [store |-> [st EXCEPT ![First(m)].doc =
                        [k \in (DOMAIN st[First(m)].doc) \cup DOMAIN fields |->
                           IF k \in DOMAIN fields THEN fields[k]
                           ELSE st[First(m)].doc[k]]],
           matchedCount |-> 1]

\* c.deleteOne({_id: id}): the first match is removed from the collection
DeleteOne(st, id) ==
  LET m == Matches(st, id, <<>>, FALSE)
  IN IF m = {} THEN [store |-> st, deletedCount |-> 0]
     ELSE [store |-> [st EXCEPT ![First(m)].removed = TRUE], deletedCount |-> 1]

\* the ObjectId the driver makes for the k-th document it inserts
HexOf(k) == <<"a">> \o NumToStr(k)

\* c.insertMany(docs), ordered: a document without _id gets a new ObjectId; a
\* duplicate _id stops the insert with the earlier documents stored
RECURSIVE InsertMany(_, _)
InsertMany(st, docs) ==
  IF docs = <<>> THEN [store |-> st, thrown |-> FALSE]
  ELSE LET d == Head(docs)
           given == Str_id \in DOMAIN d /\ d[Str_id] # Null
           doc == IF given THEN d ELSE With(d, Str_id, OidValue(HexOf(Len(st) + 1)))
       IN IF \E i \in 1..Len(st) : ~st[i].removed /\ st[i].doc[Str_id] = doc[Str_id]
            THEN [store |-> st, thrown |-> TRUE]
          ELSE InsertMany(Append(st, Entry(doc)), Tail(docs))

-----------------------------------------------------------------------------
(* MongoRestRouter: the handlers *)

NoResponse == [route |-> "none", status |-> "none", count |-> 0, field |-> "none"]
\* the response: its status, and the field of its body with the count under it
RespondWith(route, status, count, field) ==
  [route |-> route, status |-> status, count |-> count, field |-> field]
Respond(route, status, count) ==
  RespondWith(route, status, count,
              IF status # "200" THEN "error"
              ELSE IF route = "PATCH" THEN "modifiedCount" ELSE "deletedCount")
\* the handler's promise is rejected and no response is sent
Unhandled(route) == Respond(route, "unhandled", 0)

\* what the driver throws for an update document without atomic operators,
\* and for an empty batch
MongoInvalidArgumentError == [name |-> "MongoInvalidArgumentError", errors |-> <<>>]

\* handleValidateError(e, res)
handleValidateError(route, e) ==
  IF e.name \in {"SyntaxError", "ValidationError"} THEN Respond(route, "400", 0)
  ELSE Unhandled(route)

\* the documents GET / finds with an empty query: criteria[deleted] =
\* {$exists: false} unless noManagedDates
Listed(st, opts) ==
  {i \in 1..Len(st) :
     ~st[i].removed /\ (opts.noManagedDates \/ opts.dateFields.deleted \notin DOMAIN st[i].doc)}

\* the documents GET /archive finds with an empty query
Archived(st, opts) ==
  {i \in 1..Len(st) : ~st[i].removed /\ opts.dateFields.deleted \in DOMAIN st[i].doc}

\* GET /
routerGetList(st, opts) ==
  RespondWith("GET", "200", Cardinality(Listed(st, opts)), "count")

\* GET /:id
routerGetId(st, opts, id) ==
  IF Matches(st, OidValue(id), opts.dateFields.deleted, ~opts.noManagedDates) = {}
    THEN Respond("GET id", "404", 0)
  ELSE RespondWith("GET id", "200", 1, "found")

\* GET /archive is registered when !noArchive || noManagedDates
routerGetArchive(st, opts) ==
  IF ~opts.noArchive \/ opts.noManagedDates
    THEN RespondWith("GET archive", "200", Cardinality(Archived(st, opts)), "count")
  ELSE Respond("GET archive", "404", 0)

\* POST /: h holds req.body at address 1
routerPost(st, opts, h, t) ==
  LET v == validateBulk(h, Ref(1), opts.dateFields)
      payload == v.out.val
      n == ArrayLength(v.heap, payload)
      docs == [i \in 1..n |->
                 LET d == Serialize(v.heap, ArrayItem(v.heap, payload, i - 1))
                 IN IF opts.noManagedDates THEN d
                    ELSE With(d, opts.dateFields.added, DateValue(DateAt(t)))]
  IN IF IsArray(v.heap, payload) THEN
       IF opts.noPostBulk
         THEN [store |-> st,
               response |-> handleValidateError("POST", ValidationError(<<"Expecting an object">>))]
       ELSE IF n = 0
         THEN [store |-> st, response |-> handleValidateError("POST", MongoInvalidArgumentError)]
       ELSE [store |-> InsertMany(st, docs).store,
             response |-> IF InsertMany(st, docs).thrown THEN Unhandled("POST")
                          ELSE RespondWith("POST", "200", n, "insertedIds")]
     ELSE \* c.insertOne(payload)
       [store |-> InsertMany(st, <<IF opts.noManagedDates THEN Serialize(v.heap, payload)
                                   ELSE With(Serialize(v.heap, payload), opts.dateFields.added,
                                             DateValue(DateAt(t)))>>).store,
        response |-> RespondWith("POST", "200", 1, "insertedId")]

\* PUT /:id: validate strips the payload, the handler sets _id and the dates
\* and calls c.updateOne(criteria, payload); the driver refuses an update
\* document without atomic operators, so the call throws and nothing is written
routerPut(st, opts, id, h, t) ==
  [store |-> st, response |-> handleValidateError("PUT", MongoInvalidArgumentError)]

\* PATCH /:id, lines 233-234: the managed lastModified date, then the _id of
\* the criteria (read from origObject) and the fields of the $set
SetFields(h, newObject, opts, t) ==
  IF opts.noManagedDates
    THEN [thrown |-> FALSE,
          id |-> ToStored(h, Member(h, origObject, Str_id)),
          fields |-> Serialize(h, newObject)]
  ELSE [thrown |-> FALSE,
        id |-> ToStored(h, Member(h, origObject, Str_id)),
        fields |-> With(Serialize(h, newObject), opts.dateFields.lastModified,
                        DateValue(DateAt(t)))]

\* PATCH /:id, lines 230-232: validate(newObject, {allowManagedDates: true})
Validated(p, opts, t) ==
  IF p.out.thrown THEN [thrown |-> TRUE, error |-> p.out.val]
  ELSE SetFields(validate(p.heap, p.out.val, TRUE, opts.dateFields).heap, p.out.val, opts, t)

\* a PATCH /:id that $sets the patched copy as the query leaves it, without
\* the _id comparison of applyPatchRequest and without validate
PatchedFieldsUnchecked(h, r, opts, t) ==
  LET q == ApplyQuery(Append(h, PlainObject(h[OrigAddr].props)), Ref(Len(h) + 1), r.query)
  IN IF q.thrown THEN [thrown |-> TRUE, error |-> TypeError]
     ELSE SetFields(q.heap, Ref(Len(h) + 1), opts, t)

\* PATCH /:id, after findOne: applyPatchRequest, validate, lastModified; gives
\* the error thrown, or the _id of the criteria and the fields of the $set
PatchedFields(h, r, opts, t) == Validated(applyPatchRequest(h, r), opts, t)

\* PATCH /:id, the updateOne and the response
PatchResponse(st, f) ==
  IF f.thrown THEN [store |-> st, response |-> handleValidateError("PATCH", f.error)]
  ELSE [store |-> UpdateOneSet(st, f.id, <<>>, FALSE, f.fields).store,
        response |-> Respond("PATCH", "200",
                             UpdateOneSet(st, f.id, <<>>, FALSE, f.fields).matchedCount)]

routerPatchUpdate(st, opts, orig, r, t) ==
  PatchResponse(st, PatchedFields(Load(orig), r, opts, t))

\* a DELETE /:id that removes the document whatever the options
routerDeleteRemoves(st, opts, id, t) ==
  [store |-> DeleteOne(st, OidValue(id)).store,
   response |-> Respond("DELETE", "200", DeleteOne(st, OidValue(id)).deletedCount)]

\* DELETE /:id
routerDelete(st, opts, id, t) ==
  IF opts.noArchive \/ opts.noManagedDates
    THEN LET d == DeleteOne(st, OidValue(id))
         IN [store |-> d.store, response |-> Respond("DELETE", "200", d.deletedCount)]
  ELSE LET u == UpdateOneSet(st, OidValue(id), opts.dateFields.deleted, ~opts.noManagedDates,
                             opts.dateFields.deleted :> DateValue(DateAt(t)))
       IN [store |-> u.store, response |-> Respond("DELETE", "200", u.matchedCount)]

\* DELETE /archive/:id is registered when !noArchive || noManagedDates
routerDeleteArchive(st, opts, id) ==
  IF ~opts.noArchive \/ opts.noManagedDates
    THEN [store |-> st, response |-> Respond("DELETE archive", "501", 0)]
  ELSE [store |-> st, response |-> Respond("DELETE archive", "404", 0)]

-----------------------------------------------------------------------------
(* withDb and resolveDb *)

\* process.env.MONGO_URL not set
Unset == "unset"

\* the db argument: undefined, a Db, a function, a connection string
NoDbArg == [kind |-> "undefined", url |-> "none"]
DbObject == [kind |-> "Db", url |-> "none"]
DbFunction == [kind |-> "function", url |-> "none"]
DbString(url) == [kind |-> "string", url |-> url]

\* a connection string new MongoClient(db) refuses with a MongoParseError
BadUrl == "bad"

\* e instanceof MongoError, e instanceof MongoServerError
IsMongoError(e) == e \in {"MongoError", "MongoServerError", "MongoParseError"}
IsMongoServerError(e) == e = "MongoServerError"

\* resolveDb(db): fn is what the function db() does when it is called, the
\* name "Db" for a return, else the error it throws
resolveDb(db, url, cl, fn) ==
  IF db.kind = "function"
    THEN IF fn = "Db" THEN [thrown |-> "none", db |-> "db()", clients |-> cl]
         ELSE [thrown |-> fn, db |-> "none", clients |-> cl]
  ELSE IF db.kind = "string" \/ (db.kind = "undefined" /\ url # Unset)
    THEN IF (IF db.kind = "string" THEN db.url ELSE url) \in cl
           THEN [thrown |-> "none", db |-> "client.db()", clients |-> cl]
         ELSE IF (IF db.kind = "string" THEN db.url ELSE url) = BadUrl
           THEN [thrown |-> "MongoParseError", db |-> "none", clients |-> cl]
         ELSE [thrown |-> "none", db |-> "client.db()",
               clients |-> cl \cup {IF db.kind = "string" THEN db.url ELSE url}]
  ELSE IF db.kind = "undefined"
    THEN [thrown |-> "Error", db |-> "none", clients |-> cl]
  ELSE [thrown |-> "none", db |-> "db", clients |-> cl]

\* what a call of the middleware did: the error it threw, req.locals.db, the
\* statuses it sent, the calls of next() it made, and clients after it
Did(thrown, locals, sent, next, cl) ==
  [thrown |-> thrown, locals |-> locals, sent |-> sent, next |-> next, clients |-> cl]

\* the catch block, and the call of next after it
Caught(e, url, cl, hasNext) ==
  IF IsMongoServerError(e) THEN Did("none", "none", <<"503">>, 0, cl \ {url})
  ELSE IF IsMongoError(e) THEN Did("none", "none", <<"500">>, 0, cl \ {url})
  ELSE Did("none", "none", <<"500">>, IF hasNext THEN 1 ELSE 0, cl)

\* req.locals.db = resolveDb(db) in the try block: r is what resolveDb gave
Resolved(r, url, hasLocals, hasNext) ==
  IF r.thrown # "none" THEN Caught(r.thrown, url, r.clients, hasNext)
  ELSE IF ~hasLocals THEN Caught("TypeError", url, r.clients, hasNext)
  ELSE Did("none", r.db, <<>>, IF hasNext THEN 1 ELSE 0, r.clients)

\* withDb(db)(req, res, next): hasLocals says req.locals is an object,
\* hasNext that next was given
withDb(db, url, cl, hasLocals, hasNext, fn) ==
  IF url = Unset THEN Did("Error: MONGO_URL not set", "none", <<>>, 0, cl)
  ELSE Resolved(resolveDb(db, url, cl, fn), url, hasLocals, hasNext)

NoCall == [hasLocals |-> TRUE, hasNext |-> TRUE, fn |-> "Db",
           thrown |-> "none", locals |-> "none", sent |-> <<>>, next |-> 0]

NoDb ==
  /\ env = Unset /\ dbArg = NoDbArg /\ clients = {} /\ mw = NoCall /\ calls = 0

-----------------------------------------------------------------------------
(* The inputs drawn: documents, queries and bodies *)

Str_a == <<"a">>
Str_b == <<"b">>
Hex1 == <<"a", "1">>

\* origObject {_id: ObjectId(Hex1), n: "x"} with member a, when given, set to aVal;
\* more are the objects aVal refers to (at addresses 3, 4)
Document(aVal, more) ==
  <<PlainObject(IF aVal = Absent
                  THEN (Str_id :> Ref(2)) @@ (Str_n :> Str(Str_x))
                  ELSE (Str_id :> Ref(2)) @@ (Str_n :> Str(Str_x)) @@ (Str_a :> aVal)),
    ObjectIdObject(Hex1)>> \o more

Documents ==
  { Document(Absent, <<>>),
    Document(Null, <<>>),
    Document(Str(Str_x), <<>>),
    Document(Num(4), <<>>),
    Document(Ref(3), <<PlainObject(NoProps)>>),
    Document(Ref(3), <<PlainObject(Str_b :> Str(Str_x))>>),
    Document(Ref(3), <<PlainObject(Str_b :> Null)>>),
    Document(Ref(3), <<PlainObject(Str_b :> Ref(4)), PlainObject(NoProps)>>),
    Document(Ref(3), <<ArrayObject(Str_0 :> Str(Str_x))>>),
    Document(Ref(3), <<ArrayObject(Str_0 :> Ref(4)), PlainObject(NoProps)>>) }

SeqsUpTo(S, n) == UNION {[1..k -> S] : k \in 0..n}

ValueChars == {"\"", "4", "x"}
RawStrings == SeqsUpTo(ValueChars, MaxLen) \cup LiteralNames \cup DateStrings
RawValues == {Str(s) : s \in RawStrings} \cup {NoValue}
FewValues == {Str(<<"4">>), Str(Str_x), Str(Str_null)}

QueryKeys ==
  { Str_id, Str_n,
    <<"a", "/", "b">>, <<"a", "/", "b", "/", "c">>, <<"a", "/", "0", "/", "c">>,
    <<"/", "n">>, <<"~", "0">> }

\* one key with any raw value, or up to MaxKeys distinct keys with few values
Queries ==
  {<<>>}
  \cup {<<<<k, v>>>> : k \in QueryKeys, v \in RawValues}
  \cup {q \in SeqsUpTo(QueryKeys \X FewValues, MaxKeys) :
          Len(q) > 1 /\ \A i, j \in 1..Len(q) : i # j => q[i][1] # q[j][1]}

Ptr(name) == Str(<<"/">> \o name)

Operations ==
  { Operation("add", Ptr(Str_x), Absent, Num(4)),
    Operation("replace", Ptr(Str_n), Absent, Str(<<"A">>)),
    Operation("replace", Ptr(Str_id), Absent, Str(<<"b", "2">>)),
    Operation("test", Ptr(Str_n), Absent, Str(Str_x)),
    Operation("test", Ptr(Str_n), Absent, Str(<<"z">>)),
    Operation("remove", Ptr(Str_n), Absent, Absent),
    Operation("move", Ptr(Str_x), Ptr(Str_n), Absent),
    Operation("copy", Ptr(Str_x), Ptr(Str_id), Absent),
    Operation("add", Ptr(Str_x), Absent, Absent),
    Operation("bogus", Ptr(Str_n), Absent, Absent) }

Patches == SeqsUpTo(Operations, MaxOps)

Texts ==
  {Text(FALSE, JsonArray(p)) : p \in Patches}
  \cup {Text(FALSE, NotJson), Text(FALSE, JsonOther), Text(FALSE, JsonNull)}

EmptyBodies == {ObjectBody(<<>>), ArrayBody(<<>>), StringBody(EmptyText)}

NonEmptyBodies ==
  {StringBody(t) : t \in Texts}
  \cup {ArrayBody(<<StringItem(t)>>) : t \in Texts}
  \cup {ArrayBody(p) : p \in Patches \ {<<>>}}
  \cup {ObjectBody(<<Str_n>>), UndefinedBody}

Requests ==
  {[query |-> q, body |-> b] : q \in Queries, b \in {ObjectBody(<<>>)}}
  \cup {[query |-> q, body |-> b] :
          q \in {<<>>, <<<<Str_n, Str(<<"4">>)>>>>}, b \in EmptyBodies \cup NonEmptyBodies}

Str_gone == <<"g", "o", "n", "e">>
Str_z == <<"z">>

\* the options: dateFields as getValidate and MongoRestRouter complete them
Options(dateFields, noArchive, noManagedDates, noPostBulk) ==
  [dateFields |-> dateFields, noArchive |-> noArchive,
   noManagedDates |-> noManagedDates, noPostBulk |-> noPostBulk]
DefaultOptions == Options(DefaultDateFields, FALSE, FALSE, FALSE)

DateFieldChoices == {DefaultDateFields, [DefaultDateFields EXCEPT !.deleted = Str_gone]}

\* payload objects, as JSON gives them
PayloadProps ==
  LET id == Str_id :> Str(Str_x)
      n == Str_n :> Str(Str_x)
  IN { id @@ n,
       n,
       id @@ (Str_n :> Num(4)),
       id,
       id @@ n @@ (Str_z :> Str(Str_x)),
       id @@ n @@ (Str_added :> Str(Str_iso)) @@ (Str_lastModified :> Str(Str_iso))
          @@ (Str_deleted :> Str(Str_iso)),
       n @@ (Str_added :> Str(Str_iso)),
       id @@ n @@ (Str_gone :> Str(Str_iso)) }

\* a heap holding an array of the objects with these properties, the array at 1
ArrayHeap(items) ==
  <<ArrayObject([k \in {NumToStr(i - 1) : i \in 1..Len(items)} |->
                   Ref(ParseNumber(k) + 2)])>>
  \o [i \in 1..Len(items) |-> PlainObject(items[i])]

PayloadHeaps(fn) ==
  {<<PlainObject(p)>> : p \in PayloadProps}
  \cup (IF fn = "validateBulk"
          THEN {ArrayHeap(items) : items \in SeqsUpTo(PayloadProps, MaxItems)}
          ELSE {})

NoArgs == [fn |-> "none", allowManagedDates |-> FALSE]

-----------------------------------------------------------------------------
(* The specification of applyPatchRequest *)

NoResult == Returned(Undefined)

Init ==
  /\ heap \in Documents
  /\ pre = heap
  /\ req \in Requests
  /\ result = NoResult
  /\ rejections = 0
  /\ pc = "idle"
  /\ options = DefaultOptions
  /\ args = NoArgs
  /\ ajvCalls = <<>>
  /\ store = <<>> /\ pending = <<>> /\ response = NoResponse /\ now = 0
  /\ NoDb

\* one call applyPatchRequest(origObject, req)
Call ==
  /\ pc = "idle"
  /\ LET r == applyPatchRequest(heap, req)
     IN /\ heap' = r.heap
        /\ result' = r.out
        /\ rejections' = rejections + r.rejected
  /\ pc' = "done"
  /\ UNCHANGED <<pre, req, options, args, ajvCalls>>
  /\ UNCHANGED routerVars
  /\ UNCHANGED dbVars

Next == Call

Spec == Init /\ [][Next]_vars

-----------------------------------------------------------------------------
(* Properties of applyPatchRequest *)

\* the call took the query-parameter branch
QueryBranch == req.body.kind # "undefined" /\ BodyKeyCount(req.body) = 0

\* the call took the JSON Patch branch, and JSON.parse gave the patch
PatchBranch ==
  /\ req.body.kind # "undefined" /\ BodyKeyCount(req.body) > 0
  /\ BodyToString(req.body).json # NotJson

\* the document the call produced: the working copy of the query branch, the
\* patched document of the JSON Patch branch
Produced == IF QueryBranch THEN Ref(Len(pre) + 1) ELSE origObject

\* every object of the original document is as it was when the call began
OriginalUntouched == \A a \in 1..Len(pre) : heap[a] = pre[a]

\* C1 (as claimed): whenever the patch request gives the produced document
\* an _id different from the original's, the call fails with a
\* ValidationError carrying the single /_id "read only" error record.
C1_IdChangeIsReadOnlyError ==
  (/\ pc = "done"
   /\ QueryBranch \/ PatchBranch
   /\ Member(heap, Produced, Str_id) # Member(pre, origObject, Str_id))
  => result = Thrown(ValidationError(<<ReadOnlyIdError>>))

\* C2 (as claimed): when a JSON Patch fails at some operation, the original
\* document passed in holds the same values after the call as before it.
C2_FailedPatchLeavesOriginal ==
  (/\ pc = "done" /\ PatchBranch
   /\ applyPatch(pre, origObject, BodyToString(req.body).json).thrown
   /\ result.thrown)
  => OriginalUntouched

\* C3 (as claimed): a query-parameter patch leaves every member of the
\* original document and of its nested containers as it was, whether the
\* call returns or throws.
C3_QueryPatchLeavesOriginal ==
  (pc = "done" /\ QueryBranch) => OriginalUntouched

\* the body is a parseable document that does not follow the JSON Patch grammar
NonConformingBody ==
  /\ req.body.kind # "undefined" /\ BodyKeyCount(req.body) > 0
  /\ IF req.body.kind = "string"
       THEN /\ req.body.text.json # NotJson
            /\ ~(/\ req.body.text.json.t = "array"
                 /\ \A i \in 1..Len(req.body.text.json.ops) :
                      OperationConforms(req.body.text.json.ops[i]))
       ELSE ~jsonPatchSchema(req.body)

\* C4 (as claimed): a non-empty body that does not conform to the JSON Patch
\* grammar makes the call fail with a ValidationError carrying validation
\* errors, before any operation is applied.
C4_NonConformingBodyIsValidationError ==
  (pc = "done" /\ NonConformingBody)
  => /\ result.thrown
     /\ result.val.name = "ValidationError"
     /\ result.val.errors # <<>>
     /\ OriginalUntouched

\* the container a path addresses in the document as it was passed in, or
\* Undefined when an intermediate segment is absent, null or a scalar
RECURSIVE Container(_, _, _)
Container(h, o, segs) ==
  IF o.t # "ref" THEN Undefined
  ELSE IF Len(segs) <= 1 THEN o
  ELSE Container(h, Member(h, o, IF IsArray(h, o) THEN IndexName(segs[1]) ELSE segs[1]),
                 Tail(segs))

Unresolved(key) == Container(pre, origObject, PathSegments(key)) = Undefined

\* C9 (as claimed): a query key whose path does not resolve to a container
\* is ignored without an error, and the other keys are still applied.
C9_UnresolvedKeyIsIgnored ==
  (/\ pc = "done" /\ QueryBranch
   /\ \E i \in 1..Len(req.query) : Unresolved(req.query[i][1])
   /\ \A i \in 1..Len(req.query) : req.query[i][1] # Str_id)
  => /\ ~result.thrown
     /\ \A i \in 1..Len(req.query) :
          LET key == req.query[i][1]
          IN IF Unresolved(key) \/ req.query[i][2] = NoValue
               THEN \A a \in 1..Len(heap) : key \notin DOMAIN heap[a].props
               ELSE \E a \in 1..Len(heap) : key \in DOMAIN heap[a].props

\* C10 (as claimed): a value that starts and ends with a double quote is
\* assigned as the string between the quotes, only the two quotes removed.
C10_QuotedValueKeepsInner ==
  (/\ pc = "done" /\ QueryBranch /\ ~result.thrown
   /\ Len(req.query) = 1 /\ req.query[1][1] = Str_n /\ req.query[1][2] # NoValue
   /\ Len(req.query[1][2].s) >= 2 /\ IsQuoted(req.query[1][2].s))
  => Member(heap, Produced, Str_n)
       = Str(SubSeq(req.query[1][2].s, 2, Len(req.query[1][2].s) - 1))

-----------------------------------------------------------------------------
(* The specification of validate and validateBulk *)

InitValidate ==
  /\ args \in {[fn |-> "validate", allowManagedDates |-> b] : b \in BOOLEAN}
              \cup {[fn |-> "validateBulk", allowManagedDates |-> FALSE]}
  /\ heap \in PayloadHeaps(args.fn)
  /\ pre = heap
  /\ options \in {Options(d, FALSE, FALSE, FALSE) : d \in DateFieldChoices}
  /\ req = [query |-> <<>>, body |-> ObjectBody(<<>>)]
  /\ result = NoResult
  /\ rejections = 0
  /\ ajvCalls = <<>>
  /\ pc = "idle"
  /\ store = <<>> /\ pending = <<>> /\ response = NoResponse /\ now = 0
  /\ NoDb

\* the payload is the object or array at address 1
CallValidate ==
  /\ pc = "idle" /\ args.fn = "validate"
  /\ LET r == validate(heap, Ref(1), args.allowManagedDates, options.dateFields)
     IN heap' = r.heap /\ result' = r.out /\ ajvCalls' = r.ajv
  /\ pc' = "done"
  /\ UNCHANGED <<pre, req, rejections, options, args>>
  /\ UNCHANGED routerVars
  /\ UNCHANGED dbVars

CallValidateBulk ==
  /\ pc = "idle" /\ args.fn = "validateBulk"
  /\ LET r == validateBulk(heap, Ref(1), options.dateFields)
     IN heap' = r.heap /\ result' = r.out /\ ajvCalls' = r.ajv
  /\ pc' = "done"
  /\ UNCHANGED <<pre, req, rejections, options, args>>
  /\ UNCHANGED routerVars
  /\ UNCHANGED dbVars

NextValidate == CallValidate \/ CallValidateBulk

SpecValidate == InitValidate /\ [][NextValidate]_vars

\* the payload objects of the call: the object at 1, or the elements of the array at 1
PayloadObjects ==
  IF pre[1].kind = "array" THEN {pre[1].props[k] : k \in DOMAIN pre[1].props} ELSE {Ref(1)}

\* the object conforms neither to the schema nor to its augmented forms
NonConforming(x) ==
  /\ ~AjvValid(Schema, pre, x)
  /\ ~AjvValid(idSchema, pre, x)
  /\ ~AjvValid(dateSchema(options.dateFields), pre, x)

\* C7 (as claimed): validateBulk of a sequence with a non-conforming
\* element, or of a non-conforming object, fails with a ValidationError whose
\* error set is not empty and returns no payload; validate fails likewise.
C7_NonConformingPayloadFails ==
  (pc = "done" /\ args.fn # "none" /\ \E x \in PayloadObjects : NonConforming(x))
  => /\ result.thrown
     /\ result.val.name = "ValidationError"
     /\ result.val.errors # <<>>

ManagedNames ==
  {Str_id, options.dateFields.added, options.dateFields.lastModified,
   options.dateFields.deleted}

\* C8 (as claimed): with allowManagedDates false validate strips _id and the
\* managed date fields and validates against the un-augmented schema; with
\* allowManagedDates true it leaves them and validates against the augmented
\* schema.
C8_AllowManagedDatesKeepsFields ==
  (pc = "done" /\ args.fn = "validate")
  => IF args.allowManagedDates
       THEN /\ heap[1].props = pre[1].props
            /\ \A i \in 1..Len(ajvCalls) :
                 ajvCalls[i].schema = dateSchema(options.dateFields)
       ELSE /\ heap[1].props
                 = [k \in (DOMAIN pre[1].props) \ ManagedNames |-> pre[1].props[k]]
            /\ \A i \in 1..Len(ajvCalls) : ajvCalls[i].schema = Schema

-----------------------------------------------------------------------------
(* The specification of the router *)

PostBodies ==
  LET n == Str_n :> Str(Str_x)
  IN { <<PlainObject(n)>>,
       <<PlainObject((Str_id :> Str(Str_x)) @@ n)>>,
       <<PlainObject(Str_n :> Num(4))>>,
       ArrayHeap(<<>>),
       ArrayHeap(<<n, n>>) }

PutBodies ==
  { <<PlainObject(Str_n :> Str(Str_z))>>,
    <<PlainObject((Str_id :> Str(Str_x)) @@ (Str_n :> Str(Str_z)))>> }

ReplaceN == Operation("replace", Ptr(Str_n), Absent, Str(<<"A">>))

PatchRequests ==
  {[query |-> q, body |-> ObjectBody(<<>>)] :
     q \in {<<>>, <<<<Str_n, Str(<<"4">>)>>>>, <<<<Str_id, Str(Str_x)>>>>,
            <<<<Str_n, Str(Str_undefined)>>, <<Str_z, Str(Str_Jan1)>>>>}}
  \cup {[query |-> <<>>, body |-> b] :
          b \in {ArrayBody(<<ReplaceN>>),
                 ArrayBody(<<StringItem(Text(FALSE, JsonArray(<<ReplaceN>>)))>>)}}

ParamIds == {HexOf(1), HexOf(2)}

InitRouter ==
  /\ options \in {Options(DefaultDateFields, a, m, b) : a, m, b \in BOOLEAN}
  /\ store = <<>>
  /\ pending = <<>>
  /\ response = NoResponse
  /\ now = 0
  /\ NoDb
  /\ heap = <<>> /\ pre = <<>>
  /\ req = [query |-> <<>>, body |-> ObjectBody(<<>>)]
  /\ result = NoResult
  /\ rejections = 0
  /\ pc = "idle"
  /\ args = NoArgs
  /\ ajvCalls = <<>>

\* every request passes the clock on
Served(r) ==
  /\ now < MaxRequests
  /\ now' = now + 1
  /\ store' = r.store
  /\ response' = r.response
  /\ UNCHANGED <<options, pre, req, result, rejections, pc, args, ajvCalls, dbVars>>

Handled(r) == Served(r) /\ UNCHANGED heap

\* the handler's write and its response
Answered(r) == store' = r.store /\ response' = r.response

\* POST /: heap keeps req.body as it was received
Post ==
  /\ \E h \in PostBodies :
       /\ Served(routerPost(store, options, h, now + 1))
       /\ heap' = h
  /\ UNCHANGED pending

Put ==
  /\ \E id \in ParamIds, h \in PutBodies : Handled(routerPut(store, options, id, h, now + 1))
  /\ UNCHANGED pending

\* PATCH /:id up to its first await: findOne, and 404 when nothing is found
PatchFind ==
  /\ Len(pending) < MaxPending
  /\ \E id \in ParamIds, r \in PatchRequests :
       LET m == Matches(store, OidValue(id), options.dateFields.deleted,
                        ~options.noManagedDates)
       IN IF m = {}
            THEN /\ Handled([store |-> store, response |-> Respond("PATCH", "404", 0)])
                 /\ UNCHANGED pending
          ELSE /\ now < MaxRequests
               /\ now' = now + 1
               /\ pending' = Append(pending, [orig |-> store[First(m)].doc, req |-> r])
               /\ UNCHANGED <<store, response, options, appVars, dbVars>>

\* PATCH /:id from the findOne result on
PatchUpdate ==
  /\ pending # <<>>
  /\ Answered(routerPatchUpdate(store, options, Head(pending).orig, Head(pending).req, now))
  /\ pending' = Tail(pending)
  /\ UNCHANGED <<now, options, appVars, dbVars>>

Delete ==
  /\ \E id \in ParamIds : Handled(routerDelete(store, options, id, now + 1))
  /\ UNCHANGED pending

DeleteArchive ==
  /\ \E id \in ParamIds : Handled(routerDeleteArchive(store, options, id))
  /\ UNCHANGED pending

GetList ==
  /\ Handled([store |-> store, response |-> routerGetList(store, options)])
  /\ UNCHANGED pending

GetId ==
  /\ \E id \in ParamIds :
       Handled([store |-> store, response |-> routerGetId(store, options, id)])
  /\ UNCHANGED pending

GetArchive ==
  /\ Handled([store |-> store, response |-> routerGetArchive(store, options)])
  /\ UNCHANGED pending

NextRouter ==
  \/ GetList \/ GetId \/ GetArchive
  \/ Post \/ Put \/ PatchFind \/ PatchUpdate \/ Delete \/ DeleteArchive

SpecRouter == InitRouter /\ [][NextRouter]_vars

-----------------------------------------------------------------------------
(* Properties of the router *)

Stored == {i \in 1..Len(store) : ~store[i].removed}
Archiving == ~options.noArchive /\ ~options.noManagedDates
\* the step is a DELETE /:id that matched a document
Deleted == now' = now + 1 /\ pending' = pending /\ response'.route = "DELETE" /\ response'.count = 1

\* C5: in every sequence of POST, PUT, PATCH and DELETE requests the _id of a
\* document that is in the collection never changes after its insertion: no
\* step of any handler leaves a stored document with another _id.
C5_IdIsInvariant ==
  [][\A i \in Stored :
       ~store'[i].removed => store'[i].doc[Str_id] = store[i].doc[Str_id]]_vars

\* a PATCH /:id has matched and written a document, which keeps its ObjectId
C5_Witness ==
  /\ response.route = "PATCH" /\ response.status = "200" /\ response.count = 1
  /\ \E i \in Stored :
       /\ Str_lastModified \in DOMAIN store[i].doc
       /\ store[i].doc[Str_id] = OidValue(HexOf(i))
       /\ store[i].doc[Str_n] = Num(4)

-----------------------------------------------------------------------------
(* Further properties of applyPatchRequest *)

\* C11: with an empty body and no query keys the call returns a document
\* with the same keys and the same values as the original, the _id among
\* them, and the original is as it was.
C11_NoKeysRoundTrip ==
  (pc = "done" /\ QueryBranch /\ req.query = <<>>)
  => /\ ~result.thrown
     /\ result.val.t = "ref"
     /\ heap[result.val.a].props = pre[OrigAddr].props
     /\ OriginalUntouched

\* the call with no keys has returned a copy of a document with a nested object
C11_Witness ==
  /\ pc = "done" /\ QueryBranch /\ req.query = <<>>
  /\ ~result.thrown /\ result.val # origObject
  /\ Str_a \in DOMAIN heap[result.val.a].props
  /\ heap[result.val.a].props[Str_a].t = "ref"
  /\ heap[result.val.a].props[Str_id] = pre[OrigAddr].props[Str_id]

\* the query has one key, of more than one segment, that resolves to a
\* container of the document, and a value
NestedKey ==
  /\ Len(req.query) = 1
  /\ Len(PathSegments(req.query[1][1])) > 1
  /\ ~Unresolved(req.query[1][1])
  /\ req.query[1][2] # NoValue

\* C14 (as claimed): a key of more than one segment that resolves to a
\* container assigns at the final segment inside that container, and no
\* other key is added to any container.
C14_NestedKeySetsFinalSegment ==
  (pc = "done" /\ QueryBranch /\ NestedKey /\ ~result.thrown)
  => LET segs == PathSegments(req.query[1][1])
         c == Container(pre, origObject, segs)
         last == IF IsArray(pre, c) THEN IndexName(segs[Len(segs)]) ELSE segs[Len(segs)]
     IN /\ last \in DOMAIN heap[c.a].props
        /\ \A a \in 1..Len(pre) :
             DOMAIN heap[a].props \subseteq
               DOMAIN pre[a].props \cup (IF a = c.a THEN {last} ELSE {})

\* C15 (as claimed): a value that is no literal token, is not quoted, parses
\* as no number and parses as a date is assigned as a date value, not as the
\* raw string.
C15_DateValueIsAssigned ==
  (/\ pc = "done" /\ QueryBranch /\ ~result.thrown
   /\ Len(req.query) = 1 /\ req.query[1][1] = Str_n /\ req.query[1][2] # NoValue
   /\ req.query[1][2].s \notin LiteralNames
   /\ ~IsQuoted(req.query[1][2].s)
   /\ ~IsFiniteNumber(req.query[1][2].s)
   /\ DateParses(req.query[1][2].s))
  => /\ Member(heap, Produced, Str_n).t = "ref"
     /\ heap[Member(heap, Produced, Str_n).a].kind = "Date"

-----------------------------------------------------------------------------
(* Further properties of the router *)

\* the last request answered was a POST /, of the body in heap
Posted == response.route = "POST" /\ heap # <<>>

\* C12 (as claimed): a POST / of a single object without _id stores one
\* document and answers with insertedId, also under noPostBulk; a POST / of
\* a non-empty array answers with insertedIds, and under noPostBulk exactly
\* the array bodies are rejected.
C12_PostSingleOrBulk ==
  Posted =>
    IF IsArray(heap, Ref(1))
      THEN IF options.noPostBulk THEN response.status = "400"
           ELSE ArrayLength(heap, Ref(1)) > 0 =>
                  response.status = "200" /\ response.field = "insertedIds"
    ELSE Str_id \notin DOMAIN heap[1].props =>
           /\ response.status = "200"
           /\ response.field = "insertedId"
           /\ Stored # {}

\* the stored documents that a DELETE /:id has archived
ArchivedDocs ==
  IF Archiving THEN {i \in Stored : Str_deleted \in DOMAIN store[i].doc} ELSE {}

\* document i is out of GET /:id and GET /, in the archive listing, and a PUT
\* or DELETE /:id received now leaves the collection as it is, the DELETE
\* reporting deletedCount 0
Hidden(i) ==
  /\ i \notin Listed(store, options)
  /\ i \in Archived(store, options)
  /\ routerGetArchive(store, options).status = "200"
  /\ \A id \in ParamIds :
       store[i].doc[Str_id] = OidValue(id) =>
         /\ routerGetId(store, options, id).status = "404"
         /\ routerDelete(store, options, id, now + 1).store = store
         /\ routerDelete(store, options, id, now + 1).response.count = 0
         /\ \A h \in PutBodies : routerPut(store, options, id, h, now + 1).store = store

\* C16 (as claimed): with archiving and managed dates enabled, once a
\* DELETE /:id has set the deleted field of a document, the document stays in
\* the collection, GET /:id answers 404, GET / does not list it, the archive
\* listing has it, and no later step of a PUT, PATCH or DELETE modifies it.
C16_ArchivedStaysAsDeleted ==
  [][\A i \in ArchivedDocs :
       /\ Hidden(i)
       /\ store'[i] = store[i]
       /\ Hidden(i)']_vars

-----------------------------------------------------------------------------
(* The specification of withDb *)

Urls == {"u", "v", BadUrl}
DbArgs == {NoDbArg, DbObject, DbFunction} \cup {DbString(u) : u \in Urls}
FunctionOutcomes == {"Db", "MongoServerError", "MongoError", "Error"}

InitWithDb ==
  /\ env \in {Unset} \cup Urls
  /\ dbArg \in DbArgs
  /\ clients = {}
  /\ mw = NoCall
  /\ calls = 0
  /\ options = DefaultOptions
  /\ store = <<>> /\ pending = <<>> /\ response = NoResponse /\ now = 0
  /\ heap = <<>> /\ pre = <<>>
  /\ req = [query |-> <<>>, body |-> ObjectBody(<<>>)]
  /\ result = NoResult
  /\ rejections = 0
  /\ pc = "idle"
  /\ args = NoArgs
  /\ ajvCalls = <<>>

\* the call's inputs, and what it did
Middleware(hasLocals, hasNext, fn, d) ==
  /\ mw' = [hasLocals |-> hasLocals, hasNext |-> hasNext, fn |-> fn,
            thrown |-> d.thrown, locals |-> d.locals, sent |-> d.sent, next |-> d.next]
  /\ clients' = d.clients

\* one request through the middleware
CallWithDb ==
  /\ calls < MaxCalls
  /\ calls' = calls + 1
  /\ \E hasLocals, hasNext \in BOOLEAN,
        fn \in IF dbArg.kind = "function" THEN FunctionOutcomes ELSE {"Db"} :
       Middleware(hasLocals, hasNext, fn,
                  withDb(dbArg, env, clients, hasLocals, hasNext, fn))
  /\ UNCHANGED <<env, dbArg, options, appVars, routerVars>>

NextWithDb == CallWithDb

SpecWithDb == InitWithDb /\ [][NextWithDb]_vars

\* C13 (as claimed): when db is a Db, a function returning a Db or a
\* connection string, the middleware sets req.locals.db from it and calls
\* next() without raising an error, also when MONGO_URL is unset.
C13_DbGivenNeedsNoMongoUrl ==
  (/\ calls > 0 /\ mw.hasLocals /\ mw.hasNext /\ mw.fn = "Db"
   /\ dbArg.kind \in {"Db", "function", "string"}
   /\ dbArg.url # BadUrl)
  => /\ mw.thrown = "none"
     /\ mw.sent = <<>>
     /\ mw.locals # "none"
     /\ mw.next = 1

\* C17 (as claimed): a call of the middleware either sends one error
\* response, 500 or 503, or calls next() once, never both: after an error
\* response next() is not called, and when req.locals.db was set next() is
\* called once and no response is sent.
C17_ResponseOrNext ==
  (calls > 0 /\ mw.hasNext /\ mw.hasLocals /\ env # Unset)
  => /\ mw.sent # <<>> => mw.next = 0
     /\ mw.locals # "none" => mw.sent = <<>> /\ mw.next = 1
     /\ \/ mw.sent \in {<<"500">>, <<"503">>} /\ mw.next = 0
        \/ mw.sent = <<>> /\ mw.next = 1

=============================================================================
